---- MODULE Spec2Model ----
(***************************************************************************)
(* CyberRAG: the offline indexer (ingest_atomics.py) and the online query  *)
(* pipeline (query_rag.py), each as a state machine over its own program   *)
(* counter.  Python values are tagged records; a string is the sequence of *)
(* its characters (a literal chunk of a format string is one element).     *)
(***************************************************************************)
EXTENDS Integers, Sequences, FiniteSets, TLC

VARIABLES
    \* ---- ingest_atomics.main ----
    ipc,            \* position in main()
    walk,           \* what os.walk yields: the file names, in visiting order
    pos,            \* number of walk entries already visited
    documents,      \* documents
    count,          \* count
    seen,           \* per walk entry, what open + yaml.safe_load gave (history)
    reported,       \* file names an "Error processing" line was printed for
    \* ---- the index: in memory, and as persisted under "faiss_index" ----
    vectorstore,    \* vectorstore, in either program
    saved,          \* the persisted store
    \* ---- the Document Builder applied to one atomic test ----
    bpc,
    btest,
    bout,
    \* ---- query_rag.main ----
    qpc,            \* position in main()
    environ,        \* os.getenv("GROQ_API_KEY")
    api_key,        \* api_key
    llm,            \* llm
    query,          \* query
    rewriter_output,
    enhanced_query,
    iocs,
    retrieved_docs,
    ioc_details,
    analysis,
    raised,         \* the exception last raised inside the try of lines 128-194
    calls,          \* the service calls of the current turn, in order (history)
    outcome,        \* how the current turn stands (history)
    served,         \* whether an alert was ever accepted (history)
    \* ---- the indicator listing applied to one IndicatorSet ----
    rpc,
    riocs,
    rout

ivars == <<ipc, walk, pos, documents, count, seen, reported>>
svars == <<vectorstore, saved>>
bvars == <<bpc, btest, bout>>
qvars == <<qpc, environ, api_key, llm, query, rewriter_output, enhanced_query, iocs,
           retrieved_docs, ioc_details, analysis, raised, calls, outcome, served>>
rvars == <<rpc, riocs, rout>>
vars == <<ivars, svars, bvars, qvars, rvars>>

(***************************************************************************)
(* Bounds of the model.                                                    *)
(***************************************************************************)
MaxFiles == 2       \* entries os.walk yields
MaxTests == 2       \* atomic tests in one definition file
CmdOver == 2        \* how far a command may exceed the metadata limit
MaxIndexDocs == 5   \* Documents in the persisted index the query program loads

(***************************************************************************)
(* Python values.                                                          *)
(***************************************************************************)
PyNone == [t |-> "none"]
PyStr(s) == [t |-> "str", v |-> s]
PyInt(n) == [t |-> "int", v |-> n]
PyList(l) == [t |-> "list", v |-> l]
PyDict(d) == [t |-> "dict", v |-> d]
EmptyMap == [k \in {} |-> PyNone]

\* bool(x)
Truthy(x) ==
    CASE x.t = "none" -> FALSE
      [] x.t = "str" -> x.v # <<>>
      [] x.t = "int" -> x.v # 0
      [] x.t = "list" -> x.v # <<>>
      [] x.t = "dict" -> DOMAIN x.v # {}

\* dict.get(key, default) on a mapping
MapGet(d, key, default) == IF key \in DOMAIN d THEN d[key] ELSE default

\* str.startswith / str.endswith
StartsWith(s, p) == Len(s) >= Len(p) /\ SubSeq(s, 1, Len(p)) = p
EndsWith(s, p) == Len(s) >= Len(p) /\ SubSeq(s, Len(s) - Len(p) + 1, Len(s)) = p

\* whether sub occurs in s (Python's `sub in s` for strings)
Contains(s, sub) ==
    \E off \in 0..(Len(s) - Len(sub)) : SubSeq(s, off + 1, off + Len(sub)) = sub

IsSpace(c) == c \in {" ", "\n", "\t"}

\* str.strip()
RECURSIVE LStrip(_)
LStrip(s) == IF s # <<>> /\ IsSpace(Head(s)) THEN LStrip(Tail(s)) ELSE s
RECURSIVE RStrip(_)
RStrip(s) ==
    IF s # <<>> /\ IsSpace(s[Len(s)]) THEN RStrip(SubSeq(s, 1, Len(s) - 1)) ELSE s
Strip(s) == RStrip(LStrip(s))

\* sep.join(parts), parts a sequence of strings
RECURSIVE Join(_, _)
Join(sep, parts) ==
    IF parts = <<>> THEN <<>>
    ELSE IF Len(parts) = 1 THEN parts[1]
    ELSE parts[1] \o sep \o Join(sep, Tail(parts))

\* str(x) as an f-string field renders it
Fmt(x) ==
    CASE x.t = "str" -> x.v
      [] x.t = "none" -> <<"None">>
      [] x.t = "int" -> <<"<int>">>
      [] x.t = "list" -> <<"<list>">>
      [] x.t = "dict" -> <<"<dict>">>

\* the outcome of an expression: a value, or the exception it raised
Ok(x) == [ok |-> TRUE, exc |-> "", val |-> x]
Raise(e) == [ok |-> FALSE, exc |-> e, val |-> PyNone]

(***************************************************************************)
(* ingest_atomics.py: the Document Builder (the body of the test loop).    *)
(***************************************************************************)
CmdLimit == 1000

UnnamedTest == <<"Unnamed Test">>
Unknown == <<"Unknown">>
UnknownLower == <<"unknown">>
CommaSep == <<",", " ">>

\* x.get(key, default): only a mapping has .get
PyGet(x, key, default) ==
    IF x.t = "dict" THEN Ok(MapGet(x.v, key, default)) ELSE Raise("AttributeError")

\* test.get('name', 'Unnamed Test')
NameDefault == PyStr(UnnamedTest)
\* test.get('description', '')
DescriptionDefault == PyStr(<<>>)
\* test.get('supported_platforms', [])
PlatformsDefault == PyList(<<>>)
\* test.get('executor', {})
ExecutorDefaultNone == PyNone
ExecutorDefault == PyDict(EmptyMap)
\* executor.get('command', '')
CommandDefault == PyStr(<<>>)
\* executor.get('name', 'unknown')
ExecutorNameDefault == PyStr(UnknownLower)

\* ", ".join(platforms) if platforms else "unknown"
PlatformStr(platforms) ==
    IF ~Truthy(platforms) THEN Ok(PyStr(UnknownLower))
    ELSE CASE platforms.t = "list" ->
                IF \A i \in DOMAIN platforms.v : platforms.v[i].t = "str"
                THEN Ok(PyStr(Join(CommaSep,
                        [i \in DOMAIN platforms.v |-> platforms.v[i].v])))
                ELSE Raise("TypeError")
           [] platforms.t = "str" ->
                Ok(PyStr(Join(CommaSep,
                        [i \in DOMAIN platforms.v |-> <<platforms.v[i]>>])))
           [] platforms.t = "int" -> Raise("TypeError")

\* x[:n]
Slice(x, n) ==
    CASE x.t = "str" ->
            Ok(PyStr(SubSeq(x.v, 1, IF Len(x.v) < n THEN Len(x.v) ELSE n)))
      [] x.t = "list" ->
            Ok(PyList(SubSeq(x.v, 1, IF Len(x.v) < n THEN Len(x.v) ELSE n)))
      [] x.t \in {"none", "int", "dict"} -> Raise("TypeError")

\* command[:1000]
TruncateCommandNot(command) == IF command.t \in {"str", "list"} THEN Ok(command)
                               ELSE Raise("TypeError")
TruncateCommand(command) == Slice(command, CmdLimit)

\* the f-string of lines 65-71
PageContent(technique_id, technique_name, test_name, platform_str, description, command) ==
    <<"\n Technique: ">> \o Fmt(technique_id) \o <<": ">> \o Fmt(technique_name)
    \o <<"\n Test Name: ">> \o Fmt(test_name)
    \o <<"\n Platform: ">> \o Fmt(platform_str)
    \o <<"\n Description: ">> \o Fmt(description)
    \o <<"\n Command: ">> \o Fmt(command)
    \o <<"\n">>

\* one pass of the loop body, lines 51-86: the Document, or the exception
BuildDocument(technique_id, technique_name, test, file_path) ==
    LET rName == PyGet(test, "name", NameDefault)
        rDesc == PyGet(test, "description", DescriptionDefault)
        rPlat == PyGet(test, "supported_platforms", PlatformsDefault)
        rExec == PyGet(test, "executor", ExecutorDefault)
    IN  IF ~rName.ok THEN Raise(rName.exc)
        ELSE IF rDesc.val.t # "str" THEN Raise("AttributeError")
        ELSE
        LET pstr == PlatformStr(rPlat.val)
            rCmd == PyGet(rExec.val, "command", CommandDefault)
            rEName == PyGet(rExec.val, "name", ExecutorNameDefault)
        IN  IF ~pstr.ok THEN Raise(pstr.exc)
            ELSE IF ~rCmd.ok THEN Raise(rCmd.exc)
            ELSE
            LET cut == TruncateCommand(rCmd.val)
            IN  IF ~cut.ok THEN Raise(cut.exc)
                ELSE Ok([page_content |->
                            PageContent(technique_id, technique_name, rName.val,
                                        pstr.val, PyStr(Strip(rDesc.val.v)),
                                        rCmd.val),
                         metadata |->
                            [technique_id |-> technique_id,
                             technique_name |-> technique_name,
                             test_name |-> rName.val,
                             platform |-> pstr.val,
                             executor |-> rEName.val,
                             command |-> cut.val,
                             source |-> file_path]])

\* the loop of lines 50-91 from test i on: documents and count as they are
\* when the loop ends or an exception leaves it
RECURSIVE RunTests(_, _, _, _, _, _, _)
RunTests(technique_id, technique_name, tests, i, file_path, docs, cnt) ==
    IF i > Len(tests) THEN [docs |-> docs, cnt |-> cnt, exc |-> ""]
    ELSE LET r == BuildDocument(technique_id, technique_name, tests[i], file_path)
         IN  IF ~r.ok THEN [docs |-> docs, cnt |-> cnt, exc |-> r.exc]
             ELSE RunTests(technique_id, technique_name, tests, i + 1, file_path,
                           Append(docs, r.val), cnt + 1)

\* `key in x`
PyIn(key, x) ==
    CASE x.t = "dict" -> Ok(key \in DOMAIN x.v)
      [] x.t = "str" -> Ok(Contains(x.v, <<key>>))
      [] x.t = "list" -> Ok(\E i \in DOMAIN x.v : x.v[i] = PyStr(<<key>>))
      [] x.t \in {"int", "none"} -> Raise("TypeError")

\* iter(x), as `for test in x` takes it
PyIter(x) ==
    CASE x.t = "list" -> Ok(x.v)
      [] x.t = "str" -> Ok([i \in DOMAIN x.v |-> PyStr(<<x.v[i]>>)])
      [] x.t \in {"int", "none"} -> Raise("TypeError")

\* the try block of lines 38-91 for one file; opened is what open() and
\* yaml.safe_load gave.  exc is "" when no exception reached line 93.
ProcessFile(file_path, opened, docs, cnt) ==
    LET same == [docs |-> docs, cnt |-> cnt, exc |-> ""]
        data == opened.val
    IN  IF ~opened.ok THEN [same EXCEPT !.exc = opened.exc]
        ELSE IF ~Truthy(data) THEN same
        ELSE
        LET has == PyIn("atomic_tests", data)
        IN  IF ~has.ok THEN [same EXCEPT !.exc = has.exc]
            ELSE IF ~has.val THEN same
            ELSE
            LET tid == PyGet(data, "attack_technique", PyStr(Unknown))
                tname == PyGet(data, "display_name", PyStr(Unknown))
                lst == PyGet(data, "atomic_tests", PyList(<<>>))
            IN  IF ~tid.ok THEN [same EXCEPT !.exc = tid.exc]
                ELSE
                LET it == PyIter(lst.val)
                IN  IF ~it.ok THEN [same EXCEPT !.exc = it.exc]
                    ELSE RunTests(tid.val, tname.val, it.val, 1, file_path,
                                  docs, cnt)

\* file.endswith(".yaml") and file.startswith("T")
Matches(file) ==
    EndsWith(file, <<".", "y", "a", "m", "l">>) /\ StartsWith(file, <<"T">>)

(***************************************************************************)
(* The definition files the walk may meet.                                 *)
(***************************************************************************)
Chars(n) == [i \in 1..n |-> IF i % 2 = 1 THEN "a" ELSE "b"]

FileNames ==
    { <<"T", "1", ".", "y", "a", "m", "l">>,
      <<"T", "2", ".", "y", "a", "m", "l">>,
      <<"t", "3", ".", "y", "a", "m", "l">>,
      <<"T", "4", ".", "m", "d">> }

\* a test with every field, one with none, one whose description is null
FullTest ==
    PyDict([name |-> PyStr(<<"n">>),
            description |-> PyStr(<<" ", "d", " ">>),
            supported_platforms |-> PyList(<<PyStr(<<"w">>), PyStr(<<"l">>)>>),
            executor |-> PyDict([name |-> PyStr(<<"s", "h">>),
                                 command |-> PyStr(Chars(3))])])
BareTest == PyDict(EmptyMap)
NullDescriptionTest ==
    PyDict([name |-> PyStr(<<"n">>), description |-> PyNone])
IngestTests == {FullTest, BareTest, NullDescriptionTest}

SeqsUpTo(S, n) == UNION {[1..k -> S] : k \in 0..n}

Technique(tests) ==
    PyDict([attack_technique |-> PyStr(<<"T", "1">>),
            display_name |-> PyStr(<<"B", "F">>),
            atomic_tests |-> tests])

\* what yaml.safe_load may return for a file
ParsedData ==
    { PyNone, PyInt(7), PyStr(<<"x">>), PyList(<<>>), PyList(<<PyStr(<<"x">>)>>),
      PyDict(EmptyMap),
      PyDict([attack_technique |-> PyStr(<<"T", "1">>)]),
      PyDict([atomic_tests |-> PyList(<<BareTest>>)]),
      Technique(PyNone) }
    \cup {Technique(PyList(ts)) : ts \in SeqsUpTo(IngestTests, MaxTests)}

\* open() + yaml.safe_load: the parsed data, or the error raised
Opened == {Raise("OSError"), Raise("YAMLError")} \cup {Ok(d) : d \in ParsedData}

NotOpened == [ok |-> FALSE, exc |-> "skipped", val |-> PyNone]

Walks == {w \in SeqsUpTo(FileNames, MaxFiles) :
            \A i, j \in DOMAIN w : i # j => w[i] # w[j]}

(***************************************************************************)
(* ingest_atomics.main                                                     *)
(***************************************************************************)
NoIndex == [ready |-> FALSE, docs |-> <<>>]
NoStore == [state |-> "missing", docs |-> <<>>]

IngestIdle ==
    /\ ipc = "off" /\ walk = <<>> /\ pos = 0 /\ documents = <<>> /\ count = 0
    /\ seen = <<>> /\ reported = <<>>
StoreIdle == vectorstore = NoIndex /\ saved = NoStore
BuilderIdle == bpc = "off" /\ btest = PyNone /\ bout = PyNone
Unbound == [t |-> "unbound"]
NoException == [type |-> "", at |-> ""]
QueryIdle ==
    /\ qpc = "off" /\ environ = PyNone /\ api_key = Unbound /\ llm = Unbound
    /\ query = Unbound /\ rewriter_output = Unbound /\ enhanced_query = Unbound
    /\ iocs = Unbound /\ retrieved_docs = Unbound /\ ioc_details = Unbound
    /\ analysis = Unbound /\ raised = NoException /\ calls = <<>>
    /\ outcome = "none" /\ served = FALSE
RenderIdle == rpc = "off" /\ riocs = PyNone /\ rout = PyNone

IngestInit ==
    /\ ipc = "import"
    /\ walk \in Walks
    /\ pos = 0
    /\ documents = <<>>
    /\ count = 0
    /\ seen = <<>>
    /\ reported = <<>>
    /\ vectorstore = NoIndex
    /\ saved = NoStore
    /\ BuilderIdle /\ QueryIdle /\ RenderIdle

\* lines 17-25: import faiss, or the early return
ImportFaiss ==
    /\ ipc = "import"
    /\ \E ok \in BOOLEAN : ipc' = IF ok THEN "walk" ELSE "returned"
    /\ UNCHANGED <<walk, pos, documents, count, seen, reported, vectorstore, saved>>

\* where the walk stands after a file: the except clause of lines 93-94 ends
\* the iteration like a normal pass, and the loop takes the next file
NextPosAbort(p, exc, n) == IF exc # "" THEN n ELSE p + 1
NextPos(p, exc, n) == p + 1

\* lines 34-94: one file of the walk
VisitFile ==
    /\ ipc = "walk"
    /\ pos < Len(walk)
    /\ LET file == walk[pos + 1]
       IN  IF ~Matches(file)
           THEN /\ seen' = Append(seen, NotOpened)
                /\ pos' = pos + 1
                /\ UNCHANGED <<documents, count, reported>>
           ELSE \E opened \in Opened :
                    LET r == ProcessFile(file, opened, documents, count)
                    IN  /\ documents' = r.docs
                        /\ count' = r.cnt
                        /\ reported' = IF r.exc # "" THEN Append(reported, file)
                                       ELSE reported
                        /\ seen' = Append(seen, opened)
                        /\ pos' = NextPos(pos, r.exc, Len(walk))
    /\ UNCHANGED <<ipc, walk, vectorstore, saved>>

\* lines 96-97: the walk is over, the total is printed
EndWalk ==
    /\ ipc = "walk"
    /\ pos >= Len(walk)
    /\ ipc' = "embed"
    /\ UNCHANGED <<walk, pos, documents, count, seen, reported, vectorstore, saved>>

\* line 101: HuggingFaceEmbeddings(...); an exception here ends the program
InitEmbeddings ==
    /\ ipc = "embed"
    /\ \E ok \in BOOLEAN : ipc' = IF ok THEN "build" ELSE "crashed"
    /\ UNCHANGED <<walk, pos, documents, count, seen, reported, vectorstore, saved>>

\* line 106: FAISS.from_documents; an exception here ends the program
BuildIndex ==
    /\ ipc = "build"
    /\ \E ok \in BOOLEAN :
        IF ok
        THEN ipc' = "save" /\ vectorstore' = [ready |-> TRUE, docs |-> documents]
        ELSE ipc' = "crashed" /\ UNCHANGED vectorstore
    /\ UNCHANGED <<walk, pos, documents, count, seen, reported, saved>>

\* line 110: vectorstore.save_local
SaveIndex ==
    /\ ipc = "save"
    /\ \E ok \in BOOLEAN :
        IF ok THEN ipc' = "done" /\ saved' = [state |-> "ok", docs |-> vectorstore.docs]
        ELSE ipc' = "crashed" /\ UNCHANGED saved
    /\ UNCHANGED <<walk, pos, documents, count, seen, reported, vectorstore>>

IngestNext ==
    \/ ImportFaiss /\ UNCHANGED <<bvars, qvars, rvars>>
    \/ VisitFile /\ UNCHANGED <<bvars, qvars, rvars>>
    \/ EndWalk /\ UNCHANGED <<bvars, qvars, rvars>>
    \/ InitEmbeddings /\ UNCHANGED <<bvars, qvars, rvars>>
    \/ BuildIndex /\ UNCHANGED <<bvars, qvars, rvars>>
    \/ SaveIndex /\ UNCHANGED <<bvars, qvars, rvars>>

IngestSpec == IngestInit /\ [][IngestNext]_vars

(***************************************************************************)
(* The Document Builder on one atomic test, over every choice of missing   *)
(* optional fields and over commands around the metadata limit.            *)
(***************************************************************************)
Absent == [t |-> "absent"]

\* the mapping with the keys of r whose value is not Absent
Present(r) == [k \in {k \in DOMAIN r : r[k] # Absent} |-> r[k]]

CmdLengths == {0, 3, CmdLimit - 1, CmdLimit} \cup ((CmdLimit + 1)..(CmdLimit + CmdOver))

CommandOptions == {Absent, PyInt(5)} \cup {PyStr(Chars(n)) : n \in CmdLengths}
ExecutorOptions ==
    {Absent, PyNone}
    \cup {PyDict(Present([name |-> en, command |-> c])) :
            en \in {Absent, PyStr(<<"s", "h">>)}, c \in CommandOptions}
NameOptions == {Absent, PyStr(<<"n">>)}
DescriptionOptions == {Absent, PyNone, PyStr(<<" ", "d", " ">>)}
PlatformOptions == {Absent, PyList(<<>>), PyList(<<PyStr(<<"w">>), PyStr(<<"l">>)>>)}

BuilderTests ==
    {PyDict(Present([name |-> n, description |-> d,
                     supported_platforms |-> p, executor |-> e])) :
        n \in NameOptions, d \in DescriptionOptions,
        p \in PlatformOptions, e \in ExecutorOptions}

BuilderFile == <<"T", "1", ".", "y", "a", "m", "l">>
BuilderTechniqueId == PyStr(<<"T", "1">>)
BuilderTechniqueName == PyStr(<<"B", "F">>)

BuilderInit ==
    /\ bpc = "input"
    /\ btest \in BuilderTests
    /\ bout = PyNone
    /\ IngestIdle /\ StoreIdle /\ QueryIdle /\ RenderIdle

\* lines 50-88 for a tests list holding btest alone, documents empty
Build ==
    /\ bpc = "input"
    /\ bout' = RunTests(BuilderTechniqueId, BuilderTechniqueName, <<btest>>, 1,
                        BuilderFile, <<>>, 0)
    /\ bpc' = "built"
    /\ UNCHANGED btest

BuilderNext == Build /\ UNCHANGED <<ivars, svars, qvars, rvars>>

BuilderSpec == BuilderInit /\ [][BuilderNext]_vars

(***************************************************************************)
(* query_rag.py: json.loads on the rewriter's text.  The text is the       *)
(* sequence of its JSON tokens; anything else in it is a "word" token.     *)
(***************************************************************************)
LBrace == [t |-> "{"]
RBrace == [t |-> "}"]
LBracket == [t |-> "["]
RBracket == [t |-> "]"]
Colon == [t |-> ":"]
Comma == [t |-> ","]
JNull == [t |-> "null"]
JStr(s) == [t |-> "str", v |-> s]
JNum(n) == [t |-> "num", v |-> n]
JWord(w) == [t |-> "word", v |-> <<w>>]

ParseFail == [ok |-> FALSE, val |-> PyNone, next |-> 0]
Parsed(x, n) == [ok |-> TRUE, val |-> x, next |-> n]

RECURSIVE ParseValue(_, _), ParseElements(_, _, _), ParseMembers(_, _, _)

\* value := null | number | string | array | object, starting at toks[i]
ParseValue(toks, i) ==
    IF i > Len(toks) THEN ParseFail
    ELSE CASE toks[i].t = "null" -> Parsed(PyNone, i + 1)
           [] toks[i].t = "num" -> Parsed(PyInt(toks[i].v), i + 1)
           [] toks[i].t = "str" -> Parsed(PyStr(toks[i].v), i + 1)
           [] toks[i].t = "[" ->
                IF i + 1 <= Len(toks) /\ toks[i + 1].t = "]"
                THEN Parsed(PyList(<<>>), i + 2)
                ELSE ParseElements(toks, i + 1, <<>>)
           [] toks[i].t = "{" ->
                IF i + 1 <= Len(toks) /\ toks[i + 1].t = "}"
                THEN Parsed(PyDict(EmptyMap), i + 2)
                ELSE ParseMembers(toks, i + 1, EmptyMap)
           [] OTHER -> ParseFail

\* value ("," value)* "]"
ParseElements(toks, i, acc) ==
    LET e == ParseValue(toks, i)
    IN  IF ~e.ok \/ e.next > Len(toks) THEN ParseFail
        ELSE CASE toks[e.next].t = "," ->
                    ParseElements(toks, e.next + 1, Append(acc, e.val))
               [] toks[e.next].t = "]" ->
                    Parsed(PyList(Append(acc, e.val)), e.next + 1)
               [] OTHER -> ParseFail

\* string ":" value ("," string ":" value)* "}"; a repeated key keeps the last
\* (a key is written as one chunk, which names it)
ParseMembers(toks, i, acc) ==
    IF i + 1 > Len(toks) \/ toks[i].t # "str" \/ toks[i + 1].t # ":" THEN ParseFail
    ELSE LET e == ParseValue(toks, i + 2)
             key == toks[i].v[1]
         IN  IF ~e.ok \/ e.next > Len(toks) THEN ParseFail
             ELSE CASE toks[e.next].t = "," ->
                         ParseMembers(toks, e.next + 1, (key :> e.val) @@ acc)
                    [] toks[e.next].t = "}" ->
                         Parsed(PyDict((key :> e.val) @@ acc), e.next + 1)
                    [] OTHER -> ParseFail

\* json.loads: the value, or JSONDecodeError (also on text after the value)
json_loads(toks) ==
    LET r == ParseValue(toks, 1)
    IN  IF r.ok /\ r.next = Len(toks) + 1 THEN Ok(r.val) ELSE Raise("JSONDecodeError")

(***************************************************************************)
(* query_rag.py: the steps of one turn.                                    *)
(***************************************************************************)
SearchK == 4

\* lines 134-141: the rewriter's text to enhanced_query and iocs
ParseRewrite(q, text) ==
    LET r == json_loads(text)
    IN  IF ~r.ok
        THEN [ok |-> TRUE, exc |-> "", enhanced_query |-> q, iocs |-> PyDict(EmptyMap)]
        ELSE LET e == PyGet(r.val, "enhanced_query", q)
                 i == PyGet(r.val, "iocs", PyDict(EmptyMap))
             IN  IF ~e.ok
                 THEN [ok |-> FALSE, exc |-> e.exc, enhanced_query |-> Unbound,
                       iocs |-> Unbound]
                 ELSE [ok |-> TRUE, exc |-> "", enhanced_query |-> e.val,
                       iocs |-> i.val]

\* one `if iocs.get(key): ioc_details += f"- <label>: {iocs[key]}\n"`
IocLinePresentKey(d, key, label) ==
    IF key \in DOMAIN d THEN <<label>> \o Fmt(d[key]) \o <<"\n">> ELSE <<>>
IocLine(d, key, label) ==
    IF Truthy(MapGet(d, key, PyNone))
    THEN <<label>> \o Fmt(d[key]) \o <<"\n">>
    ELSE <<>>

\* lines 161-169: the indicator listing
RenderIocDetails(i) ==
    IF i.t # "dict" THEN Raise("AttributeError")
    ELSE LET text == IocLine(i.v, "source_ip", "- Source IP: ")
                     \o IocLine(i.v, "dest_ip", "- Destination IP: ")
                     \o IocLine(i.v, "protocol", "- Protocol: ")
         IN  Ok(PyStr(IF text = <<>> THEN <<"- No IOCs extracted (clean query)", "\n">>
                      ELSE text))

Digit(i) ==
    CASE i = 1 -> "1" [] i = 2 -> "2" [] i = 3 -> "3" [] i = 4 -> "4" [] i = 5 -> "5"
      [] i = 6 -> "6" [] i = 7 -> "7" [] i = 8 -> "8" [] i = 9 -> "9"

\* lines 152-155: "\n\n".join of "[Source i] <page_content>"
ContextStr(docs) ==
    Join(<<"\n\n">>,
         [i \in DOMAIN docs |-> <<"[Source ", Digit(i), "] ">> \o docs[i].page_content])

\* the Documents of docs at the positions in S, in index order
RECURSIVE Pick(_, _, _)
Pick(docs, S, i) ==
    IF i > Len(docs) THEN <<>>
    ELSE (IF i \in S THEN <<docs[i]>> ELSE <<>>) \o Pick(docs, S, i + 1)

\* what similarity_search(q, k) may return: min(k, n) Documents of the index
\* (which ones is the embedding model's choice)
SimilaritySearch(vs, k) ==
    LET n == Len(vs.docs)
        m == IF k < n THEN k ELSE n
    IN  {Pick(vs.docs, S, 1) : S \in {T \in SUBSET (1..n) : Cardinality(T) = m}}

\* str.lower() on the letters the inputs use
LowerChar(c) ==
    CASE c = "E" -> "e" [] c = "X" -> "x" [] c = "I" -> "i" [] c = "T" -> "t"
      [] c = "Q" -> "q" [] c = "U" -> "u" [] OTHER -> c
Lower(str) == [i \in DOMAIN str |-> LowerChar(str[i])]

\* the upper-case form of a lower-case letter of the exit words
Upper(c) ==
    CASE c = "e" -> "E" [] c = "x" -> "X" [] c = "i" -> "I" [] c = "t" -> "T"
      [] c = "q" -> "Q" [] c = "u" -> "U" [] OTHER -> c

ExitWords == {<<"e", "x", "i", "t">>, <<"q", "u", "i", "t">>, <<"q">>}

\* line 122
IsExit(q) == Lower(q) \in ExitWords

\* original_alert=query in the analyst prompt, line 174
AnalystAlertEnhanced(q, e) == e
AnalystAlert(q, e) == q

\* the except clause of lines 195-196 takes every Exception of the turn and
\* the loop goes on
AfterErrorEscapes(e) == IF e.type = "JSONDecodeError" THEN "prompt" ELSE "crashed"
AfterError(e) == "prompt"

(***************************************************************************)
(* query_rag.main                                                          *)
(***************************************************************************)
GROQ_MODEL_NAME == "llama-3.3-70b-versatile"

\* os.getenv("GROQ_API_KEY"): unset, empty, blank, or a key
Environments ==
    {PyNone, PyStr(<<>>), PyStr(<<" ">>), PyStr(<<" ", "g", "s", "k", "\n">>)}

StoredDoc(i) ==
    [page_content |-> Chars(i),
     metadata |-> [technique_name |-> PyStr(Chars(i)), platform |-> PyStr(<<"w">>)]]

\* what may lie under "faiss_index" when the query program starts
Stores ==
    {NoStore, [state |-> "corrupt", docs |-> <<>>]}
    \cup {[state |-> "ok", docs |-> [i \in 1..n |-> StoredDoc(i)]] : n \in 0..MaxIndexDocs}

\* what input() may return
Inputs ==
    { <<"E", "X", "I", "T">>, <<" ", "Q", "u", "i", "t", " ">>, <<"q">>,
      <<" ", " ">>,
      <<"s", "s", "h">>, <<" ", "Q", "q", " ">> }

KeyEnhanced == JStr(<<"enhanced_query">>)
KeyIocs == JStr(<<"iocs">>)
Brute == JStr(<<"b", "f">>)

\* what the rewriter chain may answer
RewriterOutputs ==
    { \* not JSON: prose, a fenced object, a cut-off object, nothing
      <<JWord("Sure"), LBrace, RBrace>>,
      <<JWord("<fence>json"), LBrace, KeyEnhanced, Colon, Brute, RBrace, JWord("<fence>")>>,
      <<LBrace, KeyEnhanced, Colon>>,
      <<>>,
      \* JSON, but no object
      <<LBracket, RBracket>>, <<JNum(42)>>, <<JNull>>, <<Brute>>,
      \* objects
      <<LBrace, RBrace>>,
      <<LBrace, KeyEnhanced, Colon, Brute, RBrace>>,
      <<LBrace, KeyEnhanced, Colon, Brute, Comma, KeyIocs, Colon,
        LBrace, JStr(<<"source_ip">>), Colon, JStr(<<"1">>), Comma,
                JStr(<<"dest_ip">>), Colon, JStr(<<"2">>), Comma,
                JStr(<<"protocol">>), Colon, JStr(<<"T">>), RBrace, RBrace>>,
      <<LBrace, KeyIocs, Colon, LBrace, JStr(<<"protocol">>), Colon, JStr(<<"T">>),
        RBrace, RBrace>>,
      <<LBrace, KeyEnhanced, Colon, JNull, Comma, KeyIocs, Colon, LBrace, RBrace,
        RBrace>>,
      <<LBrace, KeyEnhanced, Colon, Brute, Comma, KeyIocs, Colon, JNull, RBrace>> }

Report == PyStr(<<"report">>)

QueryInit ==
    /\ qpc = "start"
    /\ environ \in Environments
    /\ saved \in Stores
    /\ vectorstore = NoIndex
    /\ api_key = Unbound /\ llm = Unbound
    /\ query = Unbound /\ rewriter_output = Unbound /\ enhanced_query = Unbound
    /\ iocs = Unbound /\ retrieved_docs = Unbound /\ ioc_details = Unbound
    /\ analysis = Unbound /\ raised = NoException /\ calls = <<>>
    /\ outcome = "none" /\ served = FALSE
    /\ IngestIdle /\ BuilderIdle /\ RenderIdle

\* lines 22-28: the credential, or the early return
CheckKey ==
    /\ qpc = "start"
    /\ IF ~Truthy(environ)
       THEN /\ qpc' = "exit_nokey"
            /\ api_key' = environ
       ELSE /\ qpc' = "load"
            /\ api_key' = PyStr(Strip(environ.v))
    /\ UNCHANGED <<environ, llm, query, rewriter_output, enhanced_query, iocs,
                   retrieved_docs, ioc_details, analysis, raised, calls, outcome,
                   served, svars>>

\* lines 32-39: what the try around the load leaves; embOk is whether the
\* embedding model could be set up
LoadOrEmpty(store, embOk) ==
    IF embOk /\ store.state = "ok"
    THEN [pc |-> "connect", vs |-> [ready |-> TRUE, docs |-> store.docs]]
    ELSE [pc |-> "connect", vs |-> [ready |-> TRUE, docs |-> <<>>]]
LoadLocal(store, embOk) ==
    IF embOk /\ store.state = "ok"
    THEN [pc |-> "connect", vs |-> [ready |-> TRUE, docs |-> store.docs]]
    ELSE [pc |-> "exit_noindex", vs |-> NoIndex]

LoadIndex ==
    /\ qpc = "load"
    /\ \E embOk \in BOOLEAN :
        LET r == LoadLocal(saved, embOk)
        IN  qpc' = r.pc /\ vectorstore' = r.vs
    /\ UNCHANGED <<environ, api_key, llm, query, rewriter_output, enhanced_query, iocs,
                   retrieved_docs, ioc_details, analysis, raised, calls, outcome,
                   served, saved>>

\* lines 43-47: ChatGroq(...), or the early return
InitLLM ==
    /\ qpc = "connect"
    /\ \E ok \in BOOLEAN :
        IF ok
        THEN /\ qpc' = "prompt"
             /\ llm' = [temperature |-> 0, model_name |-> GROQ_MODEL_NAME,
                        groq_api_key |-> api_key]
        ELSE qpc' = "exit_nollm" /\ UNCHANGED llm
    /\ UNCHANGED <<environ, api_key, query, rewriter_output, enhanced_query, iocs,
                   retrieved_docs, ioc_details, analysis, raised, calls, outcome,
                   served, svars>>

\* lines 121-126: one line of input (input() is taken to return a line)
ReadInput ==
    /\ qpc = "prompt"
    /\ \E line \in Inputs :
        LET q == Strip(line)
        IN  /\ query' = PyStr(q)
            /\ calls' = <<>>
            /\ IF IsExit(q) THEN qpc' = "done" /\ outcome' = "none" /\ UNCHANGED served
               ELSE IF q = <<>>
                    THEN qpc' = "prompt" /\ outcome' = "none" /\ UNCHANGED served
               ELSE qpc' = "rewrite" /\ outcome' = "running" /\ served' = TRUE
    /\ UNCHANGED <<environ, api_key, llm, rewriter_output, enhanced_query, iocs,
                   retrieved_docs, ioc_details, analysis, raised, svars>>

\* lines 129-145: the rewriter call and the parse of its answer
Rewrite ==
    /\ qpc = "rewrite"
    /\ calls' = Append(calls, [op |-> "llm", arg |-> PyDict([raw_alert |-> query]),
                               k |-> 0])
    /\ \/ /\ qpc' = "except"
          /\ raised' = [type |-> "ServiceError", at |-> "rewrite"]
          /\ UNCHANGED <<rewriter_output, enhanced_query, iocs>>
       \/ \E text \in RewriterOutputs :
            LET r == ParseRewrite(query, text)
            IN  /\ rewriter_output' = text
                /\ IF r.ok
                   THEN /\ enhanced_query' = r.enhanced_query
                        /\ iocs' = r.iocs
                        /\ qpc' = "search"
                        /\ UNCHANGED raised
                   ELSE /\ qpc' = "except"
                        /\ raised' = [type |-> r.exc, at |-> "parse"]
                        /\ UNCHANGED <<enhanced_query, iocs>>
    /\ UNCHANGED <<environ, api_key, llm, query, retrieved_docs, ioc_details, analysis,
                   outcome, served, svars>>

\* lines 148-169: the search, the context block, the indicator listing
Search ==
    /\ qpc = "search"
    /\ calls' = Append(calls, [op |-> "search", arg |-> enhanced_query, k |-> SearchK])
    /\ \/ /\ qpc' = "except"
          /\ raised' = [type |-> IF enhanced_query.t = "str" THEN "ServiceError"
                                 ELSE "AttributeError",
                        at |-> "search"]
          /\ UNCHANGED <<retrieved_docs, ioc_details>>
       \/ /\ enhanced_query.t = "str"
          /\ \E found \in SimilaritySearch(vectorstore, SearchK) :
                LET r == RenderIocDetails(iocs)
                IN  /\ retrieved_docs' = PyList(found)
                    /\ IF r.ok
                       THEN /\ ioc_details' = r.val
                            /\ qpc' = "analyze"
                            /\ UNCHANGED raised
                       ELSE /\ qpc' = "except"
                            /\ raised' = [type |-> r.exc, at |-> "render"]
                            /\ ioc_details' = PyStr(<<>>)
    /\ UNCHANGED <<environ, api_key, llm, query, rewriter_output, enhanced_query, iocs,
                   analysis, outcome, served, svars>>

\* lines 171-193: the analyst call and the printing of its report
Analyze ==
    /\ qpc = "analyze"
    /\ calls' = Append(calls,
            [op |-> "llm",
             arg |-> PyDict([context |-> PyStr(ContextStr(retrieved_docs.v)),
                             original_alert |-> AnalystAlert(query, enhanced_query),
                             iocs |-> iocs,
                             ioc_details |-> ioc_details]),
             k |-> 0])
    /\ \/ /\ qpc' = "except"
          /\ raised' = [type |-> "ServiceError", at |-> "analyze"]
          /\ UNCHANGED <<analysis, outcome>>
       \/ /\ analysis' = Report
          /\ qpc' = "prompt"
          /\ outcome' = "completed"
          /\ UNCHANGED raised
    /\ UNCHANGED <<environ, api_key, llm, query, rewriter_output, enhanced_query, iocs,
                   retrieved_docs, ioc_details, served, svars>>

\* lines 195-196: the error line of the turn
HandleError ==
    /\ qpc = "except"
    /\ outcome' = "failed"
    /\ qpc' = AfterError(raised)
    /\ UNCHANGED <<environ, api_key, llm, query, rewriter_output, enhanced_query, iocs,
                   retrieved_docs, ioc_details, analysis, raised, calls, served, svars>>

QueryNext ==
    \/ CheckKey /\ UNCHANGED <<ivars, bvars, rvars>>
    \/ LoadIndex /\ UNCHANGED <<ivars, bvars, rvars>>
    \/ InitLLM /\ UNCHANGED <<ivars, bvars, rvars>>
    \/ ReadInput /\ UNCHANGED <<ivars, bvars, rvars>>
    \/ Rewrite /\ UNCHANGED <<ivars, bvars, rvars>>
    \/ Search /\ UNCHANGED <<ivars, bvars, rvars>>
    \/ Analyze /\ UNCHANGED <<ivars, bvars, rvars>>
    \/ HandleError /\ UNCHANGED <<ivars, bvars, rvars>>

QuerySpec == QueryInit /\ [][QueryNext]_vars

(***************************************************************************)
(* The indicator listing on one IndicatorSet, over every choice of         *)
(* populated fields.                                                       *)
(***************************************************************************)
IndicatorValues == {Absent, PyNone, PyStr(<<>>), PyStr(<<"1">>), PyStr(<<"T", "C", "P">>)}

IndicatorSets ==
    {PyDict(Present([source_ip |-> a, dest_ip |-> b, protocol |-> c])) :
        a \in IndicatorValues, b \in IndicatorValues, c \in IndicatorValues}

RenderInit ==
    /\ rpc = "input"
    /\ riocs \in IndicatorSets
    /\ rout = PyNone
    /\ IngestIdle /\ StoreIdle /\ BuilderIdle /\ QueryIdle

\* lines 161-169 on riocs
Render ==
    /\ rpc = "input"
    /\ rout' = RenderIocDetails(riocs)
    /\ rpc' = "rendered"
    /\ UNCHANGED riocs

RenderNext == Render /\ UNCHANGED <<ivars, svars, bvars, qvars>>

RenderSpec == RenderInit /\ [][RenderNext]_vars

(***************************************************************************)
(* Properties of the ingestion run.                                        *)
(***************************************************************************)
\* the Documents of the final list that originate from a file
DocsOf(file) == SelectSeq(documents, LAMBDA d : d.metadata.source = file)

WalkOver == ipc \in {"embed", "build", "save", "done", "crashed"}

\* the atomic tests a parsed file lists, when it lists any
TestsOf(opened) ==
    IF /\ opened.ok
       /\ opened.val.t = "dict"
       /\ "atomic_tests" \in DOMAIN opened.val.v
       /\ opened.val.v["atomic_tests"].t = "list"
    THEN opened.val.v["atomic_tests"].v
    ELSE <<>>

\* the Document each test of a file converts to, taken one test at a time
ConvertedTest(file, opened, i) ==
    BuildDocument(MapGet(opened.val.v, "attack_technique", PyStr(<<"Unknown">>)),
                  MapGet(opened.val.v, "display_name", PyStr(<<"Unknown">>)),
                  TestsOf(opened)[i], file)

\* a file that was read and parsed, lists its tests, and whose every test converts
WellFormed(file, opened) ==
    /\ opened.ok
    /\ opened.val.t = "dict"
    /\ "atomic_tests" \in DOMAIN opened.val.v
    /\ opened.val.v["atomic_tests"].t = "list"
    /\ \A i \in DOMAIN TestsOf(opened) : ConvertedTest(file, opened, i).ok

\* C2: a failing file does not abort the walk.  Once the walk is over every
\* entry os.walk yielded was visited and every matching file was opened,
\* whatever files failed before it; each well-formed file contributed exactly
\* the Documents of its atomic tests, in order; the program leaves the walk
\* only towards the build-and-save steps (it returns early only before the
\* walk starts, and crashes only after it).
C2_WalkNotAborted ==
    /\ ipc = "returned" => pos = 0 /\ seen = <<>>
    /\ ipc = "walk" => Len(seen) = pos /\ pos <= Len(walk)
    /\ WalkOver =>
        /\ Len(seen) = Len(walk)
        /\ \A i \in DOMAIN walk :
            /\ Matches(walk[i]) => seen[i] # NotOpened
            /\ WellFormed(walk[i], seen[i]) =>
                /\ Len(DocsOf(walk[i])) = Len(TestsOf(seen[i]))
                /\ \A k \in DOMAIN TestsOf(seen[i]) :
                    DocsOf(walk[i])[k] = ConvertedTest(walk[i], seen[i], k).val
        /\ count = Len(documents)

\* C2 witness: the walk is over, a file failed, and a well-formed file
\* visited after it contributed its Documents.
C2_Witness ==
    /\ ipc = "build"
    /\ \E i, j \in DOMAIN walk :
        /\ i < j
        /\ \E r \in DOMAIN reported : reported[r] = walk[i]
        /\ WellFormed(walk[j], seen[j])
        /\ Len(TestsOf(seen[j])) = MaxTests
        /\ Len(DocsOf(walk[j])) = MaxTests

\* C3: a file whose processing raised contributes no Document: the final
\* list holds nothing that originates from a reported file, and count
\* counts only the Documents of the other files.
C3_FailedFileLeavesNoDocument ==
    WalkOver =>
        /\ \A r \in DOMAIN reported : DocsOf(reported[r]) = <<>>
        /\ count = Len(SelectSeq(documents,
                        LAMBDA d : \A r \in DOMAIN reported :
                                        reported[r] # d.metadata.source))

\* parsed content that is empty, a mapping without the tests collection, or
\* a mapping whose tests collection is null or empty
NothingToIngest(opened) ==
    /\ opened.ok
    /\ \/ opened.val \in {PyNone, PyList(<<>>), PyDict(EmptyMap), PyStr(<<>>)}
       \/ /\ opened.val.t = "dict"
          /\ \/ "atomic_tests" \notin DOMAIN opened.val.v
             \/ opened.val.v["atomic_tests"] \in {PyNone, PyList(<<>>)}

\* C4: a file with nothing to ingest yields zero Documents and is skipped
\* silently: no error line is printed for it.
C4_EmptyFileSkippedSilently ==
    \A i \in DOMAIN seen :
        NothingToIngest(seen[i]) =>
            /\ DocsOf(walk[i]) = <<>>
            /\ \A r \in DOMAIN reported : reported[r] # walk[i]

(***************************************************************************)
(* Properties of the Document Builder.                                     *)
(***************************************************************************)
\* the command text the atomic test carries (empty when it carries none)
SourceCommand(test) ==
    IF "executor" \in DOMAIN test.v /\ test.v["executor"].t = "dict"
       /\ "command" \in DOMAIN test.v["executor"].v
    THEN test.v["executor"].v["command"]
    ELSE PyStr(<<>>)

\* C5: every Document's `command` metadata has at most 1000 characters and
\* is the prefix of the source command (all of it when it is no longer than
\* 1000), and the Document's content contains the whole source command.
C5_CommandTruncatedContentFull ==
    bpc = "built" =>
        \A i \in DOMAIN bout.docs :
            LET cmd == bout.docs[i].metadata.command
                src == SourceCommand(btest)
            IN  /\ src.t = "str" /\ cmd.t = "str"
                /\ Len(cmd.v) <= CmdLimit
                /\ Len(cmd.v) = (IF Len(src.v) < CmdLimit THEN Len(src.v) ELSE CmdLimit)
                /\ cmd.v = SubSeq(src.v, 1, Len(cmd.v))
                /\ Contains(bout.docs[i].page_content, src.v)

\* C5 witness: a Document was built from a command longer than the limit.
C5_Witness ==
    /\ bpc = "built"
    /\ Len(bout.docs) = 1
    /\ Len(SourceCommand(btest).v) > CmdLimit

\* every field the test carries has the type the definition format gives it
WellTyped(test) ==
    /\ "description" \in DOMAIN test.v => test.v["description"].t = "str"
    /\ "executor" \in DOMAIN test.v =>
        /\ test.v["executor"].t = "dict"
        /\ "command" \in DOMAIN test.v["executor"].v =>
                test.v["executor"].v["command"].t = "str"

HasExecutorField(test, key) ==
    "executor" \in DOMAIN test.v /\ key \in DOMAIN test.v["executor"].v

\* C6: whatever optional fields an atomic test lacks, building its Document
\* raises nothing and yields exactly one Document, which carries the test's
\* own value for each field present and the documented default for each
\* field missing: "Unnamed Test", an empty description, platform "unknown",
\* executor "unknown", an empty command.
C6_DefaultsForMissingFields ==
    (bpc = "built" /\ WellTyped(btest)) =>
        /\ bout.exc = ""
        /\ Len(bout.docs) = 1
        /\ bout.cnt = 1
        /\ LET m == bout.docs[1].metadata
               text == bout.docs[1].page_content
               t == btest.v
           IN  /\ m.test_name = (IF "name" \in DOMAIN t THEN t["name"]
                                 ELSE PyStr(<<"Unnamed Test">>))
               /\ "description" \notin DOMAIN t =>
                    Contains(text, <<"\n Description: ", "\n Command: ">>)
               /\ "description" \in DOMAIN t =>
                    Contains(text, <<"\n Description: ">> \o Strip(t["description"].v)
                                   \o <<"\n Command: ">>)
               /\ ("supported_platforms" \notin DOMAIN t
                   \/ t["supported_platforms"] = PyList(<<>>)) =>
                    m.platform = PyStr(<<"unknown">>)
               /\ ("supported_platforms" \in DOMAIN t
                   /\ t["supported_platforms"] # PyList(<<>>)) =>
                    m.platform = PyStr(<<"w", ",", " ", "l">>)
               /\ m.executor = (IF HasExecutorField(btest, "name")
                                THEN t["executor"].v["name"]
                                ELSE PyStr(<<"unknown">>))
               /\ m.command = (IF HasExecutorField(btest, "command")
                               THEN PyStr(SubSeq(t["executor"].v["command"].v, 1,
                                    IF Len(t["executor"].v["command"].v) < CmdLimit
                                    THEN Len(t["executor"].v["command"].v)
                                    ELSE CmdLimit))
                               ELSE PyStr(<<>>))

\* C6 witness: a Document was built from a test that carries no field at all.
C6_Witness ==
    /\ bpc = "built"
    /\ btest = PyDict(EmptyMap)
    /\ Len(bout.docs) = 1

(***************************************************************************)
(* Properties of the query pipeline.                                       *)
(***************************************************************************)
\* the rewriter's text parses to a key-value object
IsObjectText(text) == json_loads(text).ok /\ json_loads(text).val.t = "dict"

\* C1: whenever the rewriter's answer cannot be parsed into a key-value
\* object (it is no JSON, or JSON that is no object), the rewrite step ends
\* with enhanced_query equal to the alert and iocs empty, and raises nothing:
\* the turn is at the search, not in the error handler.
C1_RewriteFallback ==
    (/\ \/ qpc = "search"
        \/ qpc = "except" /\ raised.at = "parse"
     /\ ~IsObjectText(rewriter_output)) =>
        /\ qpc = "search"
        /\ enhanced_query = query
        /\ iocs = PyDict(EmptyMap)

InLoop == qpc \in {"prompt", "rewrite", "search", "analyze", "except", "done"}

\* C7: the loop is entered, an alert accepted or a service called only with
\* the credential set and the persisted index loaded whole; without the
\* credential the program returns before the load, and with a missing or
\* corrupt store it returns with no index in use and no alert served.
C7_StartupGating ==
    /\ (InLoop \/ served \/ calls # <<>>) =>
        /\ environ.t = "str" /\ environ.v # <<>>
        /\ saved.state = "ok"
        /\ vectorstore = [ready |-> TRUE, docs |-> saved.docs]
        /\ llm # Unbound
    /\ (environ = PyNone \/ environ = PyStr(<<>>)) =>
        /\ qpc \in {"start", "exit_nokey"}
        /\ vectorstore = NoIndex /\ llm = Unbound
    /\ saved.state # "ok" =>
        /\ qpc \in {"start", "exit_nokey", "load", "exit_noindex"}
        /\ vectorstore = NoIndex /\ llm = Unbound
    /\ qpc \in {"exit_nokey", "exit_noindex", "exit_nollm"} =>
        ~served /\ calls = <<>> /\ query = Unbound

\* C7 witness: an alert is being served from the whole persisted index.
C7_Witness ==
    /\ qpc = "analyze"
    /\ served
    /\ Len(saved.docs) = MaxIndexDocs
    /\ vectorstore.docs = saved.docs

\* C8: a failure inside a turn (the rewriter call, the parse, the search,
\* the listing, the analyst call) is handled in the turn: the handler marks
\* the turn failed and goes back to the prompt, the index, the client and
\* the key are untouched, the next alert starts a fresh turn; and the loop
\* ends from the prompt exactly when the stripped input, lower-cased, is
\* "exit", "quit" or "q".
C8_TurnErrorsKeepSession ==
    [][/\ qpc \in {"rewrite", "search", "analyze", "except"} =>
            /\ qpc' \in {"rewrite", "search", "analyze", "except", "prompt"}
            /\ vectorstore' = vectorstore /\ saved' = saved
            /\ llm' = llm /\ api_key' = api_key
       /\ qpc = "except" => qpc' = "prompt" /\ outcome' = "failed"
       /\ (qpc = "prompt" /\ qpc' = "rewrite") => outcome' = "running" /\ calls' = <<>>
       /\ (qpc # "done" /\ qpc' = "done") =>
            /\ qpc = "prompt"
            /\ \E w \in {<<"e", "x", "i", "t">>, <<"q", "u", "i", "t">>, <<"q">>} :
                    Len(w) = Len(query'.v)
                    /\ \A i \in DOMAIN w : query'.v[i] \in {w[i], Upper(w[i])}
       /\ (qpc = "prompt" /\ qpc' \in {"prompt", "rewrite"} /\ query'.t = "str") =>
            ~ \E w \in {<<"e", "x", "i", "t">>, <<"q", "u", "i", "t">>, <<"q">>} :
                    Len(w) = Len(query'.v)
                    /\ \A i \in DOMAIN w : query'.v[i] \in {w[i], Upper(w[i])}
      ]_vars

\* C8 witness: after a turn failed in the search, the next alert was accepted.
C8_Witness ==
    /\ qpc = "rewrite"
    /\ raised.at = "search"
    /\ outcome = "running"

RewriteCall == [op |-> "llm", arg |-> PyDict([raw_alert |-> query]), k |-> 0]
SearchCall == [op |-> "search", arg |-> enhanced_query, k |-> 4]

\* C9: in every turn the calls are made in the order rewrite, search,
\* analysis, each at most once: the search only after the rewrite step set
\* enhanced_query, with that query and k = 4; the analyst call only after
\* the search returned, with the alert as typed; a completed turn made
\* exactly these three calls, two of them to the language model.
C9_StageOrder ==
    /\ qpc = "rewrite" => calls = <<>>
    /\ qpc = "search" => calls = <<RewriteCall>>
    /\ qpc = "analyze" => calls = <<RewriteCall, SearchCall>> /\ retrieved_docs.t = "list"
    /\ qpc = "except" =>
        /\ Len(calls) \in 1..3
        /\ calls[1] = RewriteCall
        /\ Len(calls) >= 2 => calls[2] = SearchCall
    /\ (qpc \in {"except", "prompt"} /\ Len(calls) = 3) =>
        /\ calls[1] = RewriteCall
        /\ calls[2] = SearchCall
        /\ calls[3].op = "llm"
        /\ calls[3].arg.v["original_alert"] = query
        /\ calls[3].arg.v["iocs"] = iocs
        /\ calls[3].arg.v["ioc_details"] = ioc_details
        /\ Cardinality({i \in DOMAIN calls : calls[i].op = "llm"}) = 2
    /\ outcome = "completed" => Len(calls) = 3
    /\ qpc \in {"start", "load", "connect", "done"} => calls = <<>>

\* C9 witness: a turn completed whose enhanced query differs from the alert.
C9_Witness ==
    /\ qpc = "prompt"
    /\ outcome = "completed"
    /\ enhanced_query # query
    /\ Len(calls) = 3

(***************************************************************************)
(* Properties of the indicator listing.                                    *)
(***************************************************************************)
\* an indicator field that holds a non-empty string
Populated(i, key) ==
    key \in DOMAIN i.v /\ i.v[key].t = "str" /\ i.v[key].v # <<>>

LineFor(i, key, label) ==
    IF Populated(i, key) THEN <<label>> \o i.v[key].v \o <<"\n">> ELSE <<>>

\* C10: the listing holds one line per populated field among source IP,
\* destination IP and protocol, in that order, and none for an unpopulated
\* field; with none populated it is the single no-indicators line.  With
\* only the protocol populated it holds the protocol line and neither a
\* source nor a destination line.
C10_IndicatorLines ==
    rpc = "rendered" =>
        /\ rout.ok
        /\ LET text == rout.val.v
               n == Cardinality({key \in {"source_ip", "dest_ip", "protocol"} :
                                    Populated(riocs, key)})
           IN  /\ n > 0 => text = LineFor(riocs, "source_ip", "- Source IP: ")
                                  \o LineFor(riocs, "dest_ip", "- Destination IP: ")
                                  \o LineFor(riocs, "protocol", "- Protocol: ")
               /\ n = 0 => text = <<"- No IOCs extracted (clean query)", "\n">>
               /\ Cardinality({j \in DOMAIN text : text[j] = "\n"})
                    = (IF n = 0 THEN 1 ELSE n)
               /\ (/\ Populated(riocs, "protocol")
                   /\ ~Populated(riocs, "source_ip")
                   /\ ~Populated(riocs, "dest_ip")) =>
                    /\ Contains(text, <<"- Protocol: ">>)
                    /\ ~Contains(text, <<"- Source IP: ">>)
                    /\ ~Contains(text, <<"- Destination IP: ">>)

\* C10 witness: the listing of an IndicatorSet with only the protocol set.
C10_Witness ==
    /\ rpc = "rendered"
    /\ riocs = PyDict([protocol |-> PyStr(<<"T", "C", "P">>)])
    /\ rout.val = PyStr(<<"- Protocol: ", "T", "C", "P", "\n">>)

====
